---- MODULE Spec2Model ----
(***************************************************************************)
(* github-commits-since-tag: the GHcst client (src/lib/index.js and its    *)
(* second copy src/unnamed/part_000, whose commitsForOwner lists the       *)
(* repositories with one request instead of getRepos) as a state machine.  *)
(*                                                                         *)
(* One top-level call (commitsForRepo or commitsForOwner) is made per      *)
(* behaviour.  Every fetch() is a request in `net`; a request completes in *)
(* one step, which runs _handleResponse on the response and then the whole *)
(* chain of promise callbacks that the completion makes runnable.          *)
(***************************************************************************)
EXTENDS Integers, Sequences, FiniteSets, TLC

VARIABLES
  variant,   \* which copy of the module is loaded
  host,      \* the account as the host holds it when commitsForOwner is called
  call,      \* the top-level call made: [op, arg]
  outcome,   \* the promise returned to the caller: [state, value]
  net,       \* every request issued so far with its status
  pages,     \* getRepos: the promise of each page request
  repos,     \* the repositories that passed the fork filter, in order
  tagRes,    \* the getLatestTag promise of each element of repos
  tagged,    \* the TagResolutions that passed the tag filter, in order
  delta,     \* the getRepoCommitsSinceTag promise of each element of tagged
  body       \* history: the parsed body of the last response of status 200
             \* to a call of commitsForRepo, as it arrived

vars == <<variant, host, call, outcome, net, pages, repos, tagRes, tagged, delta, body>>

----------------------------------------------------------------------------
(* Bounds of the model *)

\* longest fullName handed to commitsForRepo
MaxNameLen == 4
\* most non-fork repositories an account holds
MaxNonFork == 2
\* longest tag list the host returns
MaxTags == 2
\* most commits, besides the tagged one, in a since-filtered list the host
\* returns for a repository of an owner scan
MaxCommits == 1
\* most commits, besides the tagged one, in a since-filtered list the host
\* returns to a call of commitsForRepo
MaxCommitsForRepo == 3

(* Program constants *)

perPage == 100

----------------------------------------------------------------------------
(* Characters and the two regular expressions *)

Letters ==
  {"a", "b", "c", "d", "e", "f", "g", "h", "i", "j", "k", "l", "m",
   "n", "o", "p", "q", "r", "s", "t", "u", "v", "w", "x", "y", "z",
   "A", "B", "C", "D", "E", "F", "G", "H", "I", "J", "K", "L", "M",
   "N", "O", "P", "Q", "R", "S", "T", "U", "V", "W", "X", "Y", "Z"}
Digits == {"0", "1", "2", "3", "4", "5", "6", "7", "8", "9"}
\* the line terminators of ECMAScript: LF, CR, LINE SEPARATOR and PARAGRAPH
\* SEPARATOR.  A name is a sequence of characters, one string each; the last
\* two, which a TLA+ string cannot hold, are written by their code point.
LineTerminators == {"\n", "\r", "U+2028", "U+2029"}

\* \w
IsWordChar(c) == c \in Letters \cup Digits \cup {"_"}
\* \d
IsDigit(c) == c \in Digits
\* . (any character but a line terminator)
IsAnyChar(c) == c \notin LineTerminators

\* every character of s[from..to] satisfies the class, and there is at least one
AllWordOrHyphen(s, from, to) ==
  /\ from <= to
  /\ \A j \in from..to : IsWordChar(s[j]) \/ s[j] = "-"

AllDigits(s, from, to) ==
  /\ from <= to
  /\ \A j \in from..to : IsDigit(s[j])

\* FULLPATH_RE with the fault of a missing $: a prefix of s may match
FULLPATH_RE_missing_anchor(s) ==
  \E i \in 1..Len(s), e \in 1..Len(s) :
    /\ s[i] = "/"
    /\ AllWordOrHyphen(s, 1, i - 1)
    /\ AllWordOrHyphen(s, i + 1, e)

\* FULLPATH_RE.test(s): ^([\w-]+)\/([\w-]+)$
FULLPATH_RE(s) ==
  \E i \in 1..Len(s) :
    /\ s[i] = "/"
    /\ AllWordOrHyphen(s, 1, i - 1)
    /\ AllWordOrHyphen(s, i + 1, Len(s))

\* VERSION_RE.test(s): ^v?\d+.\d+.\d+$  (the dots are unescaped: any character)
VERSION_RE(s) ==
  \E start \in {1} \cup (IF Len(s) >= 1 /\ s[1] = "v" THEN {2} ELSE {}) :
    \E i \in start..Len(s), j \in start..Len(s) :
      /\ AllDigits(s, start, i)
      /\ i + 1 <= Len(s) /\ IsAnyChar(s[i + 1])
      /\ AllDigits(s, i + 2, j)
      /\ j + 1 <= Len(s) /\ IsAnyChar(s[j + 1])
      /\ AllDigits(s, j + 2, Len(s))

----------------------------------------------------------------------------
(* Values *)

Undefined == [undefined |-> TRUE]

\* new Error(message); name is the part of the message that varies: the
\* fullName or the login, and for a message of the host the request it answers
Error(message, name) == [message |-> message, name |-> name]

Pending == [st |-> "pending"]
Rejected(err) == [st |-> "rejected", err |-> err]

\* a request: fetch(url); arg is the page, the sha or the since value
Req(kind, target, per_page, arg) ==
  [kind |-> kind, target |-> target, per_page |-> per_page, arg |-> arg]

Entry(req, status) == [req |-> req, status |-> status]

Issue(reqs) == net \cup {Entry(r, "inflight") : r \in reqs}

InFlight == {e.req : e \in {x \in net : x.status = "inflight"}}
Issued == {e.req : e \in net}
Completed(n, req, status) == (n \ {Entry(req, "inflight")}) \cup {Entry(req, status)}

----------------------------------------------------------------------------
(* The host's data *)

\* An account holds numRepos repositories; those at the positions in nonfork
\* are its own, the others are forks.
RepoCounts == {0, 1, 2, perPage, perPage + 1, 2 * perPage + 50}

\* the positions at which an account of n repositories may hold one of its
\* own: the ends of its first two pages, or its last position if it has more
OwnPositions(n) ==
  IF n <= perPage + 1 THEN {1, 2, perPage, perPage + 1} \cap (1..n) ELSE {n}

Hosts ==
  UNION {{[numRepos |-> n, nonfork |-> s] :
            s \in {t \in SUBSET OwnPositions(n) : Cardinality(t) <= MaxNonFork}} :
           n \in RepoCounts}

\* commitsForRepo names one repository: a fork, or not
RepoHosts == {[numRepos |-> 1, nonfork |-> s] : s \in {{}, {1}}}

NoHost == [numRepos |-> 0, nonfork |-> {}]

Owners == {<<"a">>}

\* the repository record at position i of the account's listing
RepoRec(login, i) ==
  [full_name |-> login \o <<"/", i>>, fork |-> i \notin host.nonfork]

\* GET /users/{login}: the account record reports public + private = numRepos
UserRecords(login) ==
  {[login |-> login, type |-> t, public_repos |-> host.numRepos] :
     t \in {"User", "Organization"}}
  \cup
  {[login |-> login, type |-> t, public_repos |-> host.numRepos - k,
    total_private_repos |-> k] :
     t \in {"User", "Organization"}, k \in {j \in {0, 1} : j <= host.numRepos}}

\* GET .../repos?per_page=N&page=P: the host serves at most perPage records a
\* page; a request that names no page gets the first one
HostPage(req) ==
  LET size == IF req.per_page = 0 THEN perPage ELSE req.per_page
      page == IF req.arg = 0 THEN 1 ELSE req.arg
      first == (page - 1) * size + 1
      last == IF page * size <= host.numRepos THEN page * size ELSE host.numRepos
  IN  IF last < first THEN <<>>
      ELSE [k \in 1..(last - first + 1) |-> RepoRec(req.target, first + k - 1)]

\* GET /repos/{full_name}/tags: the tags v1.2.3, 1-2-3, v1.2.3-b and
\* 1<U+2028>2.3 (a LINE SEPARATOR between the first two numbers), each
\* with the sha of its commit, in any order
Tag(name, sha) == [name |-> name, commit |-> [sha |-> sha]]
Tags ==
  { Tag(<<"v", "1", ".", "2", ".", "3">>, 1),
    Tag(<<"1", "-", "2", "-", "3">>, 3),
    Tag(<<"v", "1", ".", "2", ".", "3", "-", "b">>, 2),
    Tag(<<"1", "U+2028", "2", ".", "3">>, 2) }
TagLists == UNION {[1..n -> Tags] : n \in 0..MaxTags}

\* The commits of a repository are identified by their sha, 1, 2, ...;
\* commits 1 and 2 have the timestamp 1, commits 3 and 4 the timestamp 2, ...
MostCommits ==
  IF call.op = "commitsForRepo" THEN MaxCommitsForRepo ELSE MaxCommits
CommitIds == 1..(MostCommits + 2)
HostDate(sha) == (sha + 1) \div 2

\* GET /repos/{full_name}/commits/{sha}; the embedded commit object carries
\* the author (with the date), the message and the url, which ends in the sha
RawCommit(sha) ==
  [sha |-> sha,
   commit |-> [author |-> [date |-> HostDate(sha)],
               message |-> <<"message", sha>>,
               url |-> sha]]

\* GET /repos/{full_name}/commits?since=D for a repository whose tag points at
\* sha: commits dated D or later, newest first, the tagged one among them when
\* it is dated D or later; commits of one date come in either order.  The
\* host may also answer with no commit at all.
SinceLists(sha, since) ==
  LET dated == {RawCommit(c) : c \in {x \in CommitIds : HostDate(x) >= since}}
  IN  {l \in UNION {[1..n -> dated] : n \in 0..(MostCommits + 1)} :
         /\ \A i, j \in 1..Len(l) : i < j =>
              /\ l[i].sha # l[j].sha
              /\ l[i].commit.author.date >= l[j].commit.author.date
         /\ (Len(l) > 0 /\ RawCommit(sha) \in dated) =>
              \E i \in 1..Len(l) : l[i] = RawCommit(sha)}

\* the message field of the body of a response whose status is not 200
HostMessage == "Not Found"

----------------------------------------------------------------------------
(* Pure helpers of the client *)

\* Array.prototype.find
RECURSIVE FindFrom(_, _)
FindFrom(tags, i) ==
  IF i > Len(tags) THEN Undefined
  ELSE IF VERSION_RE(tags[i].name) THEN tags[i]
  ELSE FindFrom(tags, i + 1)

\* the removal with the fault of dropping the first element (shift)
Pop_shift(s) == IF Len(s) = 0 THEN s ELSE Tail(s)

\* the removal with the fault of sparing the only element of a list
Pop_spare_single(s) == IF Len(s) <= 1 THEN s ELSE SubSeq(s, 1, Len(s) - 1)

\* Array.prototype.pop: drops the last element, if there is one
Pop(s) == IF Len(s) = 0 THEN s ELSE SubSeq(s, 1, Len(s) - 1)

\* the concatenation with the fault of taking the pages last to first
RECURSIVE Concat_reversed(_, _)
Concat_reversed(results, i) ==
  IF i > Len(results) THEN <<>> ELSE Concat_reversed(results, i + 1) \o results[i]

\* the concatenation with the fault of taking one page only
Concat_one_page(results, i) ==
  IF i > Len(results) THEN <<>> ELSE results[i]

\* [].concat.apply([], results)
RECURSIVE Concat(_, _)
Concat(results, i) ==
  IF i > Len(results) THEN <<>> ELSE results[i] \o Concat(results, i + 1)

AllOk(proms) == \A i \in 1..Len(proms) : proms[i].st = "ok"

\* the index of the element of list whose repository is full_name
IndexOf(list, full_name) ==
  CHOOSE i \in 1..Len(list) : list[i].repo.full_name = full_name

\* _transformResult with the fault of handing out the commits last to first
_transformResult_reversed(result) ==
  [repo |-> result.repo.full_name,
   tag |-> result.tag.name,
   numCommits |-> Len(result.commits),
   commits |-> [i \in 1..Len(result.commits) |->
                  [author |-> result.commits[Len(result.commits) + 1 - i].author,
                   message |-> result.commits[Len(result.commits) + 1 - i].message]]]

_transformResult(result) ==
  [repo |-> result.repo.full_name,
   tag |-> result.tag.name,
   numCommits |-> Len(result.commits),
   commits |-> [i \in 1..Len(result.commits) |->
                  [author |-> result.commits[i].author,
                   message |-> result.commits[i].message]]]

Settled(state, value) == [state |-> state, value |-> value]

ReqTags(repo) == Req("tags", repo.full_name, 0, 0)
ReqCommit(result) == Req("commit", result.repo.full_name, 0, result.tag.commit.sha)

----------------------------------------------------------------------------
(* The state machine *)

Init ==
  /\ variant \in {"lib/index.js", "part_000"}
  /\ host = NoHost
  /\ call = [op |-> "none", arg |-> <<>>]
  /\ outcome = Settled("none", <<>>)
  /\ net = {}
  /\ pages = <<>>
  /\ repos = <<>>
  /\ tagRes = <<>>
  /\ tagged = <<>>
  /\ delta = <<>>
  /\ body = [kind |-> "none", json |-> <<>>]

Names == UNION {[1..n -> {"a", "_", "-", "/", "."}] : n \in 0..MaxNameLen}

\* commitsForRepo(fullName), up to its fetch of the repository record
CommitsForRepo ==
  /\ call.op = "none"
  /\ \E fullName \in Names, h \in RepoHosts :
    /\ host' = h
    /\ call' = [op |-> "commitsForRepo", arg |-> fullName]
    /\ IF ~FULLPATH_RE(fullName)
       THEN /\ outcome' = Settled("rejected", Error("incorrect format: ", fullName))
            /\ net' = net
       ELSE /\ outcome' = Settled("pending", <<>>)
            /\ net' = Issue({Req("repo", fullName, 0, 0)})
    /\ UNCHANGED <<variant, pages, repos, tagRes, tagged, delta, body>>

\* the first request of commitsForOwner(owner)
OwnerRequest(owner) ==
  IF variant = "lib/index.js"
  THEN Req("user", owner, 0, 0)
  ELSE Req("users/repos", owner, 0, 0)

\* commitsForOwner(owner), up to its first fetch
CommitsForOwner ==
  /\ call.op = "none"
  /\ \E owner \in Owners, h \in Hosts :
    /\ host' = h
    /\ call' = [op |-> "commitsForOwner", arg |-> owner]
    /\ outcome' = Settled("pending", <<>>)
    /\ net' = Issue({OwnerRequest(owner)})
    /\ pages' = IF variant = "lib/index.js" THEN <<>> ELSE <<Pending>>
    /\ UNCHANGED <<variant, repos, tagRes, tagged, delta, body>>

\* commitsForRepo: the repository record arrives; the fork check, then getLatestTag
RepoResponse ==
  \E req \in InFlight :
    /\ req.kind = "repo"
    /\ LET repo == [full_name |-> req.target, fork |-> 1 \notin host.nonfork]
       IN  /\ IF repo.fork
              THEN /\ outcome' = Settled("rejected", Error("ignoring forked repo", <<>>))
                   /\ net' = Completed(net, req, "200")
                   /\ UNCHANGED <<repos, tagRes>>
              ELSE /\ repos' = <<repo>>
                   /\ tagRes' = <<Pending>>
                   /\ net' = Completed(net, req, "200") \cup {Entry(ReqTags(repo), "inflight")}
                   /\ UNCHANGED outcome
           /\ body' = [kind |-> "repo", json |-> repo]
    /\ UNCHANGED <<variant, host, call, pages, tagged, delta>>

\* getRepos(user): the page requests it issues, or none when it rejects
NumRepos(user) ==
  user.public_repos
    + (IF "total_private_repos" \in DOMAIN user /\ user.total_private_repos # 0
       THEN user.total_private_repos ELSE 0)

\* the page count with the fault of rounding up instead of adding one
NumPages_ceil(numRepos) == (numRepos + perPage - 1) \div perPage

\* Math.floor(numRepos / perPage + 1)
NumPages(numRepos) == (numRepos \div perPage) + 1

ReposUrl(user) == IF user.type = "User" THEN "users/repos" ELSE "orgs/repos"

\* commitsForOwner (lib/index.js): the account record arrives; getRepos
UserResponse ==
  \E req \in InFlight :
    /\ req.kind = "user"
    /\ \E user \in UserRecords(req.target) :
         LET numRepos == NumRepos(user)
             numPages == NumPages(numRepos)
         IN  IF numRepos = 0
             THEN /\ outcome' = Settled("rejected", Error(" has no repos", user.login))
                  /\ net' = Completed(net, req, "200")
                  /\ pages' = pages
             ELSE /\ pages' = [i \in 1..numPages |-> Pending]
                  /\ net' = Completed(net, req, "200") \cup
                       {Entry(Req(ReposUrl(user), user.login, perPage, i), "inflight") :
                          i \in 1..numPages}
                  /\ outcome' = outcome
    /\ UNCHANGED <<variant, host, call, repos, tagRes, tagged, delta, body>>

\* commitsForOwner: filter those with no tag (of the resolved TagResolutions)
TagFilter(results) ==
  SelectSeq(results, LAMBDA result : result.st = "ok" /\ result.tag # Undefined)

\* the join of the getLatestTag promises with the fault of not waiting for all
AllTagsResolved_any(results) == \E i \in 1..Len(results) : results[i].st = "ok"

\* Promise.all(repos.map(getLatestTag)) has fulfilled
AllTagsResolved(results) == AllOk(results)

\* the chain that runs once every TagResolution is there: the tag filter,
\* then getRepoCommitsSinceTag on each that is left
AfterTags(results, n) ==
  LET withTag == TagFilter(results)
  IN  /\ tagged' = withTag
      /\ delta' = [i \in 1..Len(withTag) |-> Pending]
      /\ net' = n \cup {Entry(ReqCommit(withTag[i]), "inflight") : i \in 1..Len(withTag)}
      /\ outcome' = IF Len(withTag) = 0 THEN Settled("fulfilled", <<>>) ELSE outcome

\* the fork filter with the fault of keeping every repository
ForkFilter_none(rs) == rs

\* commitsForOwner: filter repos
ForkFilter(rs) == SelectSeq(rs, LAMBDA repo : ~repo.fork)

\* a page of repositories arrives; when it is the last one: the concatenation,
\* the fork filter, and getLatestTag on each repository that is left
ReposPageResponse ==
  \E req \in InFlight :
    /\ req.kind \in {"users/repos", "orgs/repos"}
    /\ LET k == IF req.arg = 0 THEN 1 ELSE req.arg
           done == [pages EXCEPT ![k] = [st |-> "ok", value |-> HostPage(req)]]
           all == Concat([i \in 1..Len(done) |-> done[i].value], 1)
           kept == ForkFilter(all)
           n == Completed(net, req, "200")
       IN  /\ pages' = done
           /\ IF AllOk(done)
              THEN /\ repos' = kept
                   /\ tagRes' = [i \in 1..Len(kept) |-> Pending]
                   /\ IF Len(kept) = 0
                      THEN AfterTags(<<>>, n)
                      ELSE /\ net' = n \cup {Entry(ReqTags(kept[i]), "inflight") :
                                               i \in 1..Len(kept)}
                           /\ UNCHANGED <<tagged, delta, outcome>>
              ELSE /\ net' = n
                   /\ UNCHANGED <<repos, tagRes, tagged, delta, outcome>>
    /\ UNCHANGED <<variant, host, call, body>>

\* the check of commitsForRepo with the fault of never firing
HasNoTag_never(result) == FALSE

\* commitsForRepo: !result.tag
HasNoTag(result) == result.tag = Undefined

\* getLatestTag: the tag list arrives and the TagResolution is resolved.
\* commitsForRepo then rejects a resolution without a tag; commitsForOwner
\* goes on once every resolution is there.
TagsResponse ==
  \E req \in InFlight, tags \in TagLists :
    /\ req.kind = "tags"
    /\ LET k == CHOOSE i \in 1..Len(repos) : repos[i].full_name = req.target
           result == [st |-> "ok", repo |-> repos[k], tag |-> FindFrom(tags, 1)]
           done == [tagRes EXCEPT ![k] = result]
           n == Completed(net, req, "200")
       IN  /\ tagRes' = done
           /\ body' = IF call.op = "commitsForRepo"
                      THEN [kind |-> "tags", json |-> tags] ELSE body
           /\ IF call.op = "commitsForRepo" /\ HasNoTag(result)
              THEN /\ outcome' = Settled("rejected", Error("repo has no version tag", <<>>))
                   /\ net' = n
                   /\ UNCHANGED <<tagged, delta>>
              ELSE IF AllTagsResolved(done)
              THEN AfterTags(done, n)
              ELSE /\ net' = n
                   /\ UNCHANGED <<tagged, delta, outcome>>
    /\ UNCHANGED <<variant, host, call, pages, repos>>

\* getRepoCommitsSinceTag: the commit of the tag arrives; the since-filtered
\* list is requested with its author date
TagCommitResponse ==
  \E req \in InFlight :
    /\ req.kind = "commit"
    /\ LET commit == RawCommit(req.arg)
       IN  net' = Completed(net, req, "200") \cup
                    {Entry(Req("commits", req.target, 0, commit.commit.author.date),
                           "inflight")}
    /\ body' = IF call.op = "commitsForRepo"
               THEN [kind |-> "commit", json |-> RawCommit(req.arg)] ELSE body
    /\ UNCHANGED <<variant, host, call, outcome, pages, repos, tagRes, tagged, delta>>

\* what getRepoCommitsSinceTag resolves with, given the since-filtered list
DeltaResult(repo, tag, commits) ==
  LET popped == Pop(commits)
  IN  [st |-> "ok", repo |-> repo, tag |-> tag,
       commits |-> [i \in 1..Len(popped) |-> popped[i].commit]]

\* the last steps of commitsForOwner with the fault of a missing filter
OwnerResults_nofilter(results) ==
  [i \in 1..Len(results) |-> _transformResult(results[i])]

\* the chain of commitsForOwner that runs once every DeltaResult is there: the
\* filter of those with no commits after the tag, then _transformResult
OwnerResults(results) ==
  LET kept == SelectSeq(results, LAMBDA result : Len(result.commits) # 0)
  IN  [i \in 1..Len(kept) |-> _transformResult(kept[i])]

\* the last step of commitsForRepo with the fault of the owner scan's filter
RepoResult_filtered(result) ==
  IF Len(result.commits) = 0
  THEN Settled("rejected", Error("no commits after tag", <<>>))
  ELSE Settled("fulfilled", _transformResult(result))

\* the last step of commitsForRepo: _transformResult on the DeltaResult
RepoResult(result) == Settled("fulfilled", _transformResult(result))

\* getRepoCommitsSinceTag: the since-filtered list arrives and the DeltaResult
\* is resolved; the call fulfils once every DeltaResult is there
CommitsListResponse ==
  \E req \in InFlight :
    /\ req.kind = "commits"
    /\ LET k == IndexOf(tagged, req.target)
       IN  \E commits \in SinceLists(tagged[k].tag.commit.sha, req.arg) :
             LET done == [delta EXCEPT
                            ![k] = DeltaResult(tagged[k].repo, tagged[k].tag, commits)]
             IN  /\ delta' = done
                 /\ body' = IF call.op = "commitsForRepo"
                            THEN [kind |-> "commits", json |-> commits]
                            ELSE body
                 /\ net' = Completed(net, req, "200")
                 /\ outcome' =
                      IF ~AllOk(done) THEN outcome
                      ELSE IF call.op = "commitsForRepo"
                      THEN RepoResult(done[1])
                      ELSE Settled("fulfilled", OwnerResults(done))
    /\ UNCHANGED <<variant, host, call, pages, repos, tagRes, tagged>>

\* the promise a request's result goes to is rejected with err
RejectBranch(req, err) ==
  /\ pages' = IF req.kind \in {"users/repos", "orgs/repos"}
              THEN [pages EXCEPT ![IF req.arg = 0 THEN 1 ELSE req.arg] = Rejected(err)]
              ELSE pages
  /\ tagRes' = IF req.kind = "tags"
               THEN [tagRes EXCEPT
                       ![CHOOSE i \in 1..Len(repos) : repos[i].full_name = req.target] =
                         Rejected(err)]
               ELSE tagRes
  /\ delta' = IF req.kind \in {"commit", "commits"}
              THEN [delta EXCEPT ![IndexOf(tagged, req.target)] = Rejected(err)]
              ELSE delta

\* the rejection with the fault of settling a promise that is settled already
Reject_again(err) == Settled("rejected", err)

\* a rejection reaches the promise returned to the caller: it settles it,
\* unless it is settled already (the first rejection of a Promise.all wins)
Reject(err) ==
  IF outcome.state = "pending" THEN Settled("rejected", err) ELSE outcome

\* _handleResponse on a response whose status is not 200 and whose body is
\* JSON: the request's promise rejects with the body's message, and so do the
\* promises chained on it, up to the caller's unless that one is settled
ErrorResponse ==
  \E req \in InFlight :
    /\ net' = Completed(net, req, "non-200")
    /\ RejectBranch(req, Error(HostMessage, req))
    /\ outcome' = Reject(Error(HostMessage, req))
    /\ UNCHANGED <<variant, host, call, repos, tagged, body>>

\* fetch() rejects (no response), or the body of a response of status 200 is
\* not JSON and res.json() rejects: the rejection goes down the chain as above
FetchRejected ==
  \E req \in InFlight :
    /\ net' = Completed(net, req, "no JSON body")
    /\ RejectBranch(req, Error("request failed", req))
    /\ outcome' = Reject(Error("request failed", req))
    /\ UNCHANGED <<variant, host, call, repos, tagged, body>>

\* _handleResponse on a response whose status is not 200 and whose body is
\* not JSON: res.json() rejects, nothing handles that, and the promise
\* _handleResponse returned is never settled
BadBodyResponse ==
  \E req \in InFlight :
    /\ net' = Completed(net, req, "non-200, no JSON")
    /\ UNCHANGED <<variant, host, call, outcome, pages, repos, tagRes, tagged, delta, body>>

Next ==
  \/ CommitsForRepo
  \/ CommitsForOwner
  \/ RepoResponse
  \/ UserResponse
  \/ ReposPageResponse
  \/ TagsResponse
  \/ TagCommitResponse
  \/ CommitsListResponse
  \/ ErrorResponse
  \/ FetchRejected
  \/ BadBodyResponse

Spec == Init /\ [][Next]_vars

----------------------------------------------------------------------------
(* Vocabulary of the properties *)

\* ^v?\d+\.\d+\.\d+$ : the official-release pattern, with literal dots
OfficialRelease(s) ==
  \E start \in {1} \cup (IF Len(s) >= 1 /\ s[1] = "v" THEN {2} ELSE {}) :
    \E i \in start..Len(s), j \in start..Len(s) :
      /\ AllDigits(s, start, i)
      /\ i + 1 <= Len(s) /\ s[i + 1] = "."
      /\ AllDigits(s, i + 2, j)
      /\ j + 1 <= Len(s) /\ s[j + 1] = "."
      /\ AllDigits(s, j + 2, Len(s))

\* the shape owner/name: exactly one slash, with a character before it and one
\* after it, and every other character a letter, a digit, a hyphen or an
\* underscore
OwnerSlashName(s) ==
  LET slashes == {i \in 1..Len(s) : s[i] = "/"}
  IN  /\ Cardinality(slashes) = 1
      /\ 1 \notin slashes /\ Len(s) \notin slashes
      /\ \A i \in (1..Len(s)) \ slashes : s[i] \in Letters \cup Digits \cup {"-", "_"}

\* the position, in the account's listing, of the repository called full_name
Position(full_name) == full_name[Len(full_name)]

ForOwner == call.op = "commitsForOwner"
ForRepo == call.op = "commitsForRepo"
Fulfilled == outcome.state = "fulfilled"
Failed == {e.req : e \in {x \in net : x.status \notin {"inflight", "200"}}}
DeltaKinds == {"commit", "commits"}

\* the page requests issued so far
PageRequests == {r \in Issued : r.kind \in {"users/repos", "orgs/repos"}}

\* the request of this kind, if issued, has returned 200
Returned(kind) == \E e \in net : e.req.kind = kind /\ e.status = "200"

\* the requests of this kind issued so far, with their status
OfKind(kinds) == {e \in net : e.req.kind \in kinds}

\* the errors of the rejected promises among proms
ErrorsOf(proms) ==
  {proms[i].err : i \in {j \in 1..Len(proms) : proms[j].st = "rejected"}}

\* the errors the branches of the three joins have rejected with so far
BranchErrors == ErrorsOf(pages) \cup ErrorsOf(tagRes) \cup ErrorsOf(delta)

\* how often the repository called full_name occurs in a list of results
Occurrences(results, full_name) ==
  Cardinality({j \in 1..Len(results) : results[j].repo = full_name})

----------------------------------------------------------------------------
(* The properties *)

\* C1: no DeltaResult's commit sequence contains the commit the tag points
\* at, whatever since-filtered list the host returned.
C1_TagCommitExcluded ==
  \A k \in 1..Len(delta) :
    delta[k].st = "ok" =>
      \A i \in 1..Len(delta[k].commits) :
        delta[k].commits[i].url # delta[k].tag.commit.sha

\* C2: getLatestTag never selects a tag whose name does not match
\* ^v?\d+\.\d+\.\d+$.
C2_SelectedTagIsOfficial ==
  \A k \in 1..Len(tagRes) :
    (tagRes[k].st = "ok" /\ tagRes[k].tag # Undefined) =>
      OfficialRelease(tagRes[k].tag.name)

\* C3: a fork never passes the fork filter of commitsForOwner, no tags or
\* commits request is issued for it and it is in no output; commitsForRepo on
\* a fork rejects with the forked-repo error having issued no tags or commits
\* request.
C3_ForksAreLeftOut ==
  /\ ForOwner =>
       /\ \A k \in 1..Len(repos) : Position(repos[k].full_name) \in host.nonfork
       /\ \A r \in Issued :
            r.kind \in {"tags"} \cup DeltaKinds => Position(r.target) \in host.nonfork
       /\ Fulfilled =>
            \A j \in 1..Len(outcome.value) :
              Position(outcome.value[j].repo) \in host.nonfork
  /\ (ForRepo /\ 1 \notin host.nonfork /\ Entry(Req("repo", call.arg, 0, 0), "200") \in net) =>
       /\ outcome = Settled("rejected", Error("ignoring forked repo", <<>>))
       /\ \A r \in Issued : r.kind = "repo"

\* an owner scan of 101 repositories, all forks but the last, delivered that one
C3_Witness ==
  /\ ForOwner /\ Fulfilled
  /\ host.numRepos = perPage + 1 /\ host.nonfork = {perPage + 1}
  /\ Len(outcome.value) = 1

\* C4: for a TagResolution without a tag no tag-commit or commits-list
\* request is ever issued; commitsForOwner leaves the repository out of its
\* output and commitsForRepo rejects with "repo has no version tag".
C4_NoTagNoDelta ==
  \A k \in 1..Len(tagRes) :
    (tagRes[k].st = "ok" /\ tagRes[k].tag = Undefined) =>
      /\ \A r \in Issued : r.kind \in DeltaKinds => r.target # tagRes[k].repo.full_name
      /\ (ForOwner /\ Fulfilled) =>
           Occurrences(outcome.value, tagRes[k].repo.full_name) = 0
      /\ ForRepo => outcome = Settled("rejected", Error("repo has no version tag", <<>>))

\* an owner scan delivered one repository and left out one without a tag
C4_Witness ==
  /\ ForOwner /\ Fulfilled
  /\ Len(outcome.value) = 1
  /\ \E k \in 1..Len(tagRes) : tagRes[k].st = "ok" /\ tagRes[k].tag = Undefined

\* C5: commitsForOwner fulfils only if every request it issued returned 200,
\* and once a request has failed and none is left in flight it has rejected.
C5_AllOrNothing ==
  ForOwner =>
    /\ Fulfilled => \A e \in net : e.status = "200"
    /\ (Failed # {} /\ InFlight = {}) => outcome.state = "rejected"

\* C6: once all the requests of a call have completed, the call is settled.
C6_CallSettles ==
  (call.op # "none" /\ InFlight = {}) => outcome.state \in {"fulfilled", "rejected"}

\* C7: commitsForRepo with a name that is not of the shape owner/name rejects
\* with the format error, and no request is ever issued.
C7_FormatErrorNoRequest ==
  (ForRepo /\ ~OwnerSlashName(call.arg)) =>
    /\ outcome = Settled("rejected", Error("incorrect format: ", call.arg))
    /\ net = {}

\* a name with two slashes was rejected
C7_Witness ==
  /\ ForRepo
  /\ call.arg = <<"a", "/", "a", "/">>
  /\ outcome.state = "rejected"

\* C8: a fulfilled owner scan has scanned every non-fork repository of the
\* account exactly once, and each of them that has a tag and a commit after
\* it is in the output exactly once.
C8_CoversAllRepos ==
  (ForOwner /\ Fulfilled) =>
    \A i \in host.nonfork :
      LET name == call.arg \o <<"/", i>>
      IN  /\ Cardinality({k \in 1..Len(repos) : repos[k].full_name = name}) = 1
          /\ \A k \in 1..Len(delta) :
               (delta[k].repo.full_name = name /\ Len(delta[k].commits) >= 1) =>
                 Occurrences(outcome.value, name) = 1

\* C9: the output of commitsForOwner is in the order of the account's
\* listing (page by page, and the host's order within a page).
C9_OutputInListingOrder ==
  (ForOwner /\ Fulfilled) =>
    \A a, b \in 1..Len(outcome.value) :
      a < b => Position(outcome.value[a].repo) < Position(outcome.value[b].repo)

\* two repositories of different pages were delivered
C9_Witness ==
  /\ ForOwner /\ Fulfilled
  /\ Len(outcome.value) = 2
  /\ Position(outcome.value[1].repo) = 1
  /\ Position(outcome.value[2].repo) = perPage + 1

\* C10: every PublishedResult of a fulfilled owner scan has numCommits equal
\* to the length of its commits and at least 1; a repository whose DeltaResult
\* has no commits is not in the output.
C10_NumCommitsPositive ==
  (ForOwner /\ Fulfilled) =>
    /\ \A j \in 1..Len(outcome.value) :
         /\ outcome.value[j].numCommits = Len(outcome.value[j].commits)
         /\ outcome.value[j].numCommits >= 1
    /\ \A k \in 1..Len(delta) :
         Len(delta[k].commits) = 0 =>
           Occurrences(outcome.value, delta[k].repo.full_name) = 0

\* of two tagged repositories, the one with commits after its tag was delivered
C10_Witness ==
  /\ ForOwner /\ Fulfilled
  /\ Len(delta) = 2
  /\ Len(outcome.value) = 1
  /\ \E k \in 1..2 : Len(delta[k].commits) = 0

\* C11: once getRepos has run on the record of an account of `total`
\* repositories (public plus private), either total is 0, the call has failed
\* with the "has no repos" error naming the account and no page request was
\* issued, or the page requests issued are exactly those of the pages
\* 1..floor(total/100)+1, each of page size 100, and those pages hold more
\* than total places.
C11_PageCount ==
  (ForOwner /\ Entry(Req("user", call.arg, 0, 0), "200") \in net) =>
    LET total == host.numRepos
        pageCount == (total \div 100) + 1
    IN  IF total = 0
        THEN /\ outcome = Settled("rejected", Error(" has no repos", call.arg))
             /\ PageRequests = {}
        ELSE /\ \E url \in {"users/repos", "orgs/repos"} :
                  PageRequests = {Req(url, call.arg, 100, i) : i \in 1..pageCount}
             /\ pageCount * 100 > total
             /\ total = 100 => Cardinality(PageRequests) = 2
             /\ total = 250 => Cardinality(PageRequests) = 3

\* getRepos has issued the three page requests of an account of 250 repositories
C11_Witness ==
  /\ ForOwner
  /\ host.numRepos = 250
  /\ Cardinality(PageRequests) = 3

\* getRepos has issued the two page requests of an account of 100 repositories
C11_WitnessFullPage ==
  /\ ForOwner
  /\ host.numRepos = 100
  /\ Cardinality(PageRequests) = 2

\* getRepos has rejected an account without repositories
C11_WitnessNone ==
  /\ ForOwner /\ Returned("user")
  /\ host.numRepos = 0
  /\ outcome.state = "rejected"

\* C12: once the since-filtered list has arrived in a call of commitsForRepo,
\* the call has fulfilled with one PublishedResult: its repo is the full name
\* asked for, its tag the name of the tag getLatestTag selected, its commits
\* the list the host returned less its last element, in the host's order and
\* each reduced to author and message, and its numCommits their number.  A
\* tag list with an official release in it always leads there (the call goes
\* on to the tag's commit).
C12_PublishedResult ==
  ForRepo =>
    /\ (body.kind = "tags" /\ \E i \in 1..Len(body.json) : OfficialRelease(body.json[i].name)) =>
         \E r \in Issued : r.kind = "commit"
    /\ body.kind = "commits" =>
         LET raw == body.json
             n == IF Len(raw) = 0 THEN 0 ELSE Len(raw) - 1
         IN  /\ outcome.state = "fulfilled"
             /\ outcome.value.repo = call.arg
             /\ outcome.value.tag = tagRes[1].tag.name
             /\ outcome.value.numCommits = n
             /\ Len(outcome.value.commits) = n
             /\ \A i \in 1..n :
                  outcome.value.commits[i] =
                    [author |-> raw[i].commit.author, message |-> raw[i].commit.message]

\* commitsForRepo fulfilled on a list of four commits, the tagged one last,
\* with the three commits before it
C12_Witness ==
  /\ ForRepo /\ Fulfilled
  /\ body.kind = "commits" /\ Len(body.json) = 4
  /\ body.json[4].sha = tagged[1].tag.commit.sha
  /\ outcome.value.numCommits = 3
  /\ OfficialRelease(outcome.value.tag)

\* C13: once the tags request has returned 200, getLatestTag has resolved
\* with the repository and, as tag, the first element of the list the host
\* returned whose name matches ^v?\d+\.\d+\.\d+$, or with no tag when no
\* element of the list matches (an empty list included).
C13_FirstOfficialTag ==
  (ForRepo /\ body.kind = "tags") =>
    LET official == {i \in 1..Len(body.json) : OfficialRelease(body.json[i].name)}
    IN  /\ tagRes[1].st = "ok"
        /\ tagRes[1].repo = repos[1]
        /\ IF official = {}
           THEN tagRes[1].tag = Undefined
           ELSE tagRes[1].tag = body.json[CHOOSE i \in official : \A j \in official : i <= j]

\* C14: getRepos issues the requests of all its pages together, and once
\* they have all returned 200, in whatever order, the list the scan goes on
\* with is the account's listing (page 1, then page 2, ..., each in the
\* host's order) less the forks.
C14_PagesInIndexOrder ==
  (ForOwner /\ Returned("user") /\ PageRequests # {}) =>
    /\ Cardinality(PageRequests) = Len(pages)
    /\ (\A r \in PageRequests : Entry(r, "200") \in net) =>
         /\ Len(repos) = Cardinality(host.nonfork)
         /\ \A i \in host.nonfork :
              \E k \in 1..Len(repos) : repos[k] = RepoRec(call.arg, i)
         /\ \A a, b \in 1..Len(repos) :
              a < b => Position(repos[a].full_name) < Position(repos[b].full_name)

\* the two pages of an account of 101 repositories have arrived, and the
\* first and the last repository are the ones left, in this order
C14_Witness ==
  /\ ForOwner /\ Returned("user")
  /\ host.numRepos = perPage + 1
  /\ \A k \in 1..2 : pages[k].st = "ok"
  /\ Len(repos) = 2
  /\ Position(repos[1].full_name) = 1 /\ Position(repos[2].full_name) = perPage + 1

\* the second page has arrived while the first is still awaited
C14_OutOfOrder ==
  /\ ForOwner /\ Returned("user")
  /\ Len(pages) = 2
  /\ pages[2].st = "ok" /\ pages[1].st = "pending"

\* C15: in an owner scan, as soon as a tag-commit or commits-list request is
\* issued, a tags request was issued for every repository left by the fork
\* filter and each has returned 200; and as soon as a tags request is issued,
\* every page request has returned 200.
C15_StageByStage ==
  ForOwner =>
    /\ OfKind(DeltaKinds) # {} =>
         /\ Cardinality(OfKind({"tags"})) = Len(repos)
         /\ \A e \in OfKind({"tags"}) : e.status = "200"
    /\ OfKind({"tags"}) # {} =>
         /\ Cardinality(OfKind({"users/repos", "orgs/repos"})) = Len(pages)
         /\ \A e \in OfKind({"users/repos", "orgs/repos"}) : e.status = "200"

\* a scan of two pages and two repositories has reached the tag's commit of one
C15_Witness ==
  /\ ForOwner
  /\ Len(pages) = 2
  /\ Cardinality(OfKind({"tags"})) = 2
  /\ OfKind({"commit"}) # {}

\* C16: the since-filtered list is requested only once the request for the
\* tag's commit has returned 200, with that commit's author date as since;
\* after a failure of the first request the second is not issued; and once
\* either request has failed, getRepoCommitsSinceTag has rejected.
C16_SinceAfterTagCommit ==
  \A e \in OfKind(DeltaKinds) :
    LET k == IndexOf(tagged, e.req.target)
        failed == e.status \notin {"inflight", "200"}
    IN  /\ e.req.kind = "commits" =>
             /\ Entry(ReqCommit(tagged[k]), "200") \in net
             /\ e.req.arg = RawCommit(tagged[k].tag.commit.sha).commit.author.date
        /\ (e.req.kind = "commit" /\ failed) =>
             \A r \in Issued : r.kind = "commits" => r.target # e.req.target
        /\ failed => delta[k].st = "rejected"

\* C17: in an owner scan, the step in which a branch of a join rejects
\* while the scan is pending rejects the scan with that branch's error (no
\* branch has rejected before), and once the scan is settled no later
\* completion changes its outcome.
C17_FirstFailureWins ==
  [][ForOwner =>
       /\ outcome.state = "pending" => BranchErrors = {}
       /\ (outcome.state = "pending" /\ BranchErrors' # {}) =>
            /\ outcome'.state = "rejected"
            /\ BranchErrors' = {outcome'.value}
       /\ outcome.state \in {"fulfilled", "rejected"} => outcome' = outcome]_vars

\* a scan rejected by one branch, after which another branch has failed too
C17_Witness ==
  /\ ForOwner
  /\ outcome.state = "rejected"
  /\ \E err \in BranchErrors : err.name # outcome.value.name
  /\ outcome.value \in BranchErrors

\* C18: when the since-filtered list the host returned has no element or
\* one, getRepoCommitsSinceTag has resolved with an empty commit sequence.
C18_ShortListGivesNone ==
  (ForRepo /\ body.kind = "commits" /\ Len(body.json) <= 1) =>
    /\ delta[1].st = "ok"
    /\ delta[1].commits = <<>>

\* getRepoCommitsSinceTag resolved on an empty list from the host
C18_Witness ==
  /\ ForRepo /\ body.kind = "commits"
  /\ body.json = <<>>
  /\ delta[1].st = "ok"

\* getRepoCommitsSinceTag resolved on a list of the tagged commit alone
C18_WitnessSingle ==
  /\ ForRepo /\ body.kind = "commits"
  /\ Len(body.json) = 1
  /\ body.json[1].sha = delta[1].tag.commit.sha
  /\ delta[1].st = "ok"

\* C20: commitsForRepo on a repository whose since-filtered list holds no
\* commit but the tagged one fulfils with a PublishedResult of numCommits 0
\* and no commits, while a fulfilled owner scan has no entry for a repository
\* whose DeltaResult has no commits.
C20_ZeroCommitsOnlyOwnerFilters ==
  /\ (ForRepo /\ body.kind = "commits"
        /\ \A i \in 1..Len(body.json) : body.json[i].sha = tagged[1].tag.commit.sha) =>
       outcome = Settled("fulfilled",
                         [repo |-> call.arg, tag |-> tagged[1].tag.name,
                          numCommits |-> 0, commits |-> <<>>])
  /\ (ForOwner /\ Fulfilled) =>
       \A k \in 1..Len(delta) :
         delta[k].commits = <<>> =>
           \A j \in 1..Len(outcome.value) :
             outcome.value[j].repo # delta[k].repo.full_name

\* commitsForRepo fulfilled on a repository with nothing after its tag
C20_Witness ==
  /\ ForRepo /\ Fulfilled
  /\ body.kind = "commits" /\ Len(body.json) = 1
  /\ outcome.value.numCommits = 0

\* an owner scan fulfilled with nothing, its one tagged repository having
\* nothing after its tag
C20_WitnessOwner ==
  /\ ForOwner /\ Fulfilled
  /\ Len(delta) = 1 /\ delta[1].commits = <<>>
  /\ outcome.value = <<>>

====
